---- MODULE Spec2Model ----
(***************************************************************************)
(* Model of PathogenLayoutExtensions.cpp: the record layout (an offset     *)
(* ordered, singly linked list of PathogenRecordField) and the vtable      *)
(* chain (PathogenVTable / PathogenVTableEntry) that                       *)
(* pathogen_GetRecordLayout builds for a cursor, and their disposal by     *)
(* pathogen_DeleteRecordLayout.                                            *)
(*                                                                         *)
(* Memory is modelled explicitly.  Every `new`/malloc appends an object to *)
(* the heap of its type and the index of the object is its address, so an  *)
(* address also tells in which order objects were allocated.  NULL is 0.   *)
(***************************************************************************)
EXTENDS Integers, Sequences, FiniteSets, TLC

VARIABLES
    cursor,       \* the CXCursor argument and what the AST answers about it
    pc,           \* position inside pathogen_GetRecordLayout / its caller
    idx,          \* index of the running for-loop
    ret,          \* the local `ret`: address of the PathogenRecordLayout
    result,       \* <<>> before the return, then <<the pointer returned>>
    layouts,      \* heap of PathogenRecordLayout objects
    fields,       \* heap of PathogenRecordField objects
    vtables,      \* heap of PathogenVTable objects
    arrays,       \* heap of malloc'ed PathogenVTableEntry arrays
    strings,      \* heap of string buffers malloc'ed by cxstring::createDup
    live,         \* allocations not yet released, as <<heap name, address>>
    freed         \* log of the releases, in order

vars == <<cursor, pc, idx, ret, result, layouts, fields, vtables, arrays,
          strings, live, freed>>

NULL == 0

\* enum class PathogenRecordFieldKind
Normal == 0
VTablePtr == 1
NonVirtualBase == 2
VirtualBaseTablePtr == 3
VTorDisp == 4
VirtualBase == 5

FieldKinds == {Normal, VTablePtr, NonVirtualBase, VirtualBaseTablePtr, VTorDisp, VirtualBase}

\* enum class PathogenVTableEntryKind
VCallOffset == 0
VBaseOffset == 1
OffsetToTop == 2
RTTI == 3
FunctionPointer == 4
CompleteDestructorPointer == 5
DeletingDestructorPointer == 6
UnusedFunctionPointer == 7

\* VTableComponent::Kind of clang, tied to the enum above by the static_asserts
CK_VCallOffset == 0
CK_VBaseOffset == 1
CK_OffsetToTop == 2
CK_RTTI == 3
CK_FunctionPointer == 4
CK_CompleteDtorPointer == 5
CK_DeletingDtorPointer == 6
CK_UnusedFunctionPointer == 7

ComponentKinds == {CK_VCallOffset, CK_VBaseOffset, CK_OffsetToTop, CK_RTTI,
                   CK_FunctionPointer, CK_CompleteDtorPointer,
                   CK_DeletingDtorPointer, CK_UnusedFunctionPointer}

----------------------------------------------------------------------------
(* CXString, CXType, CXCursor values *)

\* cxstring::createRef: the CXString points at a literal, nothing is allocated
createRef(text) == [data |-> text, private_flags |-> "CXS_Unmanaged", buffer |-> NULL]

\* cxstring::createDup: the CXString owns the malloc'ed copy at address buffer
createDup(text, buffer) == [data |-> text, private_flags |-> "CXS_Malloc", buffer |-> buffer]

\* CXString Name = {} of a value-initialised PathogenRecordField
NullString == [data |-> "", private_flags |-> "CXS_Unmanaged", buffer |-> NULL]

\* cxtype::MakeCXType
MakeCXType(type) == [kind |-> "CXType", data |-> type]

NullType == [kind |-> "CXType_Invalid", data |-> ""]

\* cxcursor::MakeCXCursor; declarations are named by non-zero integers
MakeCXCursor(decl) == [kind |-> "CXCursor_Decl", data |-> decl]

\* CXCursor x = {}
NullCursor == [kind |-> "CXCursor_Zero", data |-> NULL]

----------------------------------------------------------------------------
(* PathogenRecordLayout::AddField *)

\* new PathogenRecordField(): value-initialised, every member zero
NewPathogenRecordField ==
    [Kind |-> Normal, Offset |-> 0, NextField |-> NULL, Name |-> NullString,
     Type |-> NullType, FieldDeclaration |-> NullCursor, IsBitField |-> FALSE,
     BitFieldStart |-> 0, BitFieldWidth |-> 0, IsPrimaryBase |-> FALSE]

\* *insertPoint, where insertPoint is &FirstField (modelled as NULL) or
\* &(node->NextField) (modelled as the address of node)
DerefInsertPoint(fs, first, insertPoint) ==
    IF insertPoint = NULL THEN first ELSE fs[insertPoint].NextField

\* FindInsertPoint with `if` for `while`: at most one step along the list
FindInsertPointOnce(fs, first, insertPoint, offset) ==
    LET cur == DerefInsertPoint(fs, first, insertPoint)
    IN  IF cur # NULL /\ fs[cur].Offset <= offset THEN cur ELSE insertPoint

RECURSIVE FindInsertPointStrict(_, _, _, _)
\* FindInsertPoint with `<` for `<=`: stops in front of an equal offset
FindInsertPointStrict(fs, first, insertPoint, offset) ==
    LET cur == DerefInsertPoint(fs, first, insertPoint)
    IN  IF cur # NULL /\ fs[cur].Offset < offset
        THEN FindInsertPointStrict(fs, first, cur, offset)
        ELSE insertPoint

RECURSIVE FindInsertPoint(_, _, _, _)
\* the while loop of AddField, started with insertPoint
FindInsertPoint(fs, first, insertPoint, offset) ==
    LET cur == DerefInsertPoint(fs, first, insertPoint)
    IN  IF cur # NULL /\ fs[cur].Offset <= offset
        THEN FindInsertPoint(fs, first, cur, offset)
        ELSE insertPoint

\* AddField(kind, offset, name, type) on the field heap fs and FirstField
\* first; yields the new heap, the new FirstField and the returned pointer
AddField(fs, first, kind, offset, name, type) ==
    LET insertPoint == FindInsertPoint(fs, first, NULL, offset)
        field == Len(fs) + 1
        node == [NewPathogenRecordField EXCEPT
                    !.Kind = kind, !.Offset = offset, !.Name = name,
                    !.Type = type,
                    !.NextField = DerefInsertPoint(fs, first, insertPoint)]
        linked == IF insertPoint = NULL THEN fs
                  ELSE [fs EXCEPT ![insertPoint].NextField = field]
    IN  [fields |-> Append(linked, node),
         FirstField |-> IF insertPoint = NULL THEN field ELSE first,
         field |-> field]

RECURSIVE WalkFields(_, _)
\* the addresses met from field through NextField
WalkFields(fs, field) ==
    IF field = NULL THEN <<>> ELSE <<field>> \o WalkFields(fs, fs[field].NextField)

\* the field list of the layout at address ret
FieldList == IF ret = NULL THEN <<>> ELSE WalkFields(fields, layouts[ret].FirstField)

----------------------------------------------------------------------------
(* PathogenVTableEntry, PathogenVTable, AddVTableLayout *)

\* A VTableComponent of clang is [Kind, Value]: Value is the offset of the
\* three offset kinds and the declaration of the pointer kinds.
getVCallOffset(component) == component.Value
getVBaseOffset(component) == component.Value
getOffsetToTop(component) == component.Value
getRTTIDecl(component) == component.Value
getFunctionDecl(component) == component.Value

\* PathogenVTableEntry without the break of case RTTI: control falls through
\* to the function pointer cases
PathogenVTableEntryFallThrough(component) ==
    LET Kind == component.Kind
        entry == [Kind |-> Kind, MethodDeclaration |-> NullCursor,
                  RttiType |-> NullCursor, Offset |-> 0]
    IN  CASE Kind = VCallOffset ->
                [entry EXCEPT !.Offset = getVCallOffset(component)]
          [] Kind = VBaseOffset ->
                [entry EXCEPT !.Offset = getVBaseOffset(component)]
          [] Kind = OffsetToTop ->
                [entry EXCEPT !.Offset = getOffsetToTop(component)]
          [] Kind = RTTI ->
                [entry EXCEPT !.RttiType = MakeCXCursor(getRTTIDecl(component)),
                              !.MethodDeclaration = MakeCXCursor(getFunctionDecl(component))]
          [] Kind \in {FunctionPointer, CompleteDestructorPointer,
                        DeletingDestructorPointer, UnusedFunctionPointer} ->
                [entry EXCEPT !.MethodDeclaration = MakeCXCursor(getFunctionDecl(component))]
          [] OTHER -> entry

\* PathogenVTableEntry::PathogenVTableEntry(translationUnit, component)
PathogenVTableEntry(component) ==
    LET Kind == component.Kind
        entry == [Kind |-> Kind, MethodDeclaration |-> NullCursor,
                  RttiType |-> NullCursor, Offset |-> 0]
    IN  CASE Kind = VCallOffset ->
                [entry EXCEPT !.Offset = getVCallOffset(component)]
          [] Kind = VBaseOffset ->
                [entry EXCEPT !.Offset = getVBaseOffset(component)]
          [] Kind = OffsetToTop ->
                [entry EXCEPT !.Offset = getOffsetToTop(component)]
          [] Kind = RTTI ->
                [entry EXCEPT !.RttiType = MakeCXCursor(getRTTIDecl(component))]
          [] Kind \in {FunctionPointer, CompleteDestructorPointer,
                        DeletingDestructorPointer, UnusedFunctionPointer} ->
                [entry EXCEPT !.MethodDeclaration = MakeCXCursor(getFunctionDecl(component))]
          [] OTHER -> entry

\* the Entries array filled by the for loop of PathogenVTable::PathogenVTable
VTableEntries(components) ==
    [i \in 1..Len(components) |-> PathogenVTableEntry(components[i])]

\* PathogenVTable::PathogenVTable(translationUnit, layout); Entries is the
\* address malloc returned
PathogenVTable(components, Entries) ==
    [EntryCount |-> Len(components), Entries |-> Entries, NextVTable |-> NULL]

\* *insertPoint of AddVTableLayout: &FirstVTable is NULL, &(t->NextVTable) is t
DerefVTableInsertPoint(vts, first, insertPoint) ==
    IF insertPoint = NULL THEN first ELSE vts[insertPoint].NextVTable

\* FindVTableInsertPoint without the walk: the new table goes to the head
FindVTableInsertPointHead(vts, first, insertPoint) == insertPoint

RECURSIVE FindVTableInsertPoint(_, _, _)
\* the while loop of AddVTableLayout
FindVTableInsertPoint(vts, first, insertPoint) ==
    LET cur == DerefVTableInsertPoint(vts, first, insertPoint)
    IN  IF cur # NULL THEN FindVTableInsertPoint(vts, first, cur) ELSE insertPoint

\* AddVTableLayout(translationUnit, layout) on the vtable heap vts, the array
\* heap arrs and FirstVTable first
AddVTableLayout(vts, arrs, first, components) ==
    LET insertPoint == FindVTableInsertPoint(vts, first, NULL)
        vTable == Len(vts) + 1
        Entries == Len(arrs) + 1
        node == [PathogenVTable(components, Entries) EXCEPT
                    !.NextVTable = DerefVTableInsertPoint(vts, first, insertPoint)]
        linked == IF insertPoint = NULL THEN vts
                  ELSE [vts EXCEPT ![insertPoint].NextVTable = vTable]
    IN  [vtables |-> Append(linked, node),
         arrays |-> Append(arrs, VTableEntries(components)),
         FirstVTable |-> IF insertPoint = NULL THEN vTable ELSE first,
         vTable |-> vTable]

RECURSIVE WalkVTables(_, _)
\* the addresses met from vTable through NextVTable
WalkVTables(vts, vTable) ==
    IF vTable = NULL THEN <<>>
    ELSE <<vTable>> \o WalkVTables(vts, vts[vTable].NextVTable)

\* the vtable chain of the layout at address ret
VTableList == IF ret = NULL THEN <<>> ELSE WalkVTables(vtables, layouts[ret].FirstVTable)

----------------------------------------------------------------------------
(* PathogenRecordLayout::~PathogenRecordLayout, PathogenVTable::~PathogenVTable *)

\* clang_disposeString: frees the buffer of a CXS_Malloc string only
clang_disposeString(string) ==
    IF string.private_flags = "CXS_Malloc" THEN << <<"string", string.buffer>> >>
    ELSE <<>>

RECURSIVE DeleteAllFields(_, _)
\* the first for loop of the destructor: the releases it performs, in order
DeleteAllFields(fs, field) ==
    IF field = NULL THEN <<>>
    ELSE LET nextField == fs[field].NextField
         IN  clang_disposeString(fs[field].Name) \o << <<"field", field>> >>
             \o DeleteAllFields(fs, nextField)

\* delete vTable with a destructor that forgets free(Entries)
DeleteVTableKeepEntries(vts, vTable) == << <<"vtable", vTable>> >>

\* delete vTable: ~PathogenVTable frees Entries, then the node goes
DeleteVTable(vts, vTable) == << <<"array", vts[vTable].Entries>>, <<"vtable", vTable>> >>

RECURSIVE DeleteAllVTables(_, _)
\* the second for loop of the destructor
DeleteAllVTables(vts, vTable) ==
    IF vTable = NULL THEN <<>>
    ELSE LET nextVTable == vts[vTable].NextVTable
         IN  DeleteVTable(vts, vTable) \o DeleteAllVTables(vts, nextVTable)

\* delete layout: the destructor body, then the object itself
DeleteLayout(ls, fs, vts, layout) ==
    IF layout = NULL THEN <<>>
    ELSE DeleteAllFields(fs, ls[layout].FirstField)
         \o DeleteAllVTables(vts, ls[layout].FirstVTable)
         \o << <<"layout", layout>> >>

\* the set of the elements of a sequence
Range(s) == {s[i] : i \in DOMAIN s}

----------------------------------------------------------------------------
(* The cursor handed to pathogen_GetRecordLayout and the answers of the AST *)

MaxFields == 2

\* VPtrInfo::FullOffsetInMDC: where the vfptrs of a record can lie
VFPtrOffsets == {0, 8}

\* the record types that can occur as bases
RecordTypes == {"A", "B"}

\* sequences over S of length at most n
SeqsUpTo(S, n) == UNION {[1..k -> S] : k \in 0..n}

\* sequences without repetition, and sequences of bases without a type twice
Distinct(s) == \A i, j \in DOMAIN s : s[i] = s[j] => i = j
DistinctTypes(s) == \A i, j \in DOMAIN s : s[i].type = s[j].type => i = j

\* ASTRecordLayout::getBaseClassOffset and getVBaseClassOffset of this AST
getBaseClassOffset(type) == IF type = "A" THEN 0 ELSE 8
getVBaseClassOffset(type) == IF type = "A" THEN 16 ELSE 24

\* ASTRecordLayout::getVBPtrOffset of this AST
getVBPtrOffset == 8

\* CXXBaseSpecifier of cxxRecord->bases(): the direct bases, virtual or not
BaseSpecifiers == [type : RecordTypes, isVirtual : BOOLEAN]

\* cxxRecord->vbases(): all virtual bases, with the hasVtorDisp flag that
\* getVBaseOffsetsMap holds for each
VBaseSpecifiers == [type : RecordTypes, hasVtorDisp : BOOLEAN]

\* FieldDecl with the bit offset ASTRecordLayout::getFieldOffset reports and
\* the declared width: int a : 3; int b : 7; int c : 12; int d; and the
\* first member of a struct or any member of a union
FieldDecls ==
    {[offsetBits |-> 0, isBitField |-> FALSE, bitWidth |-> 0],
     [offsetBits |-> 0, isBitField |-> TRUE, bitWidth |-> 3],
     [offsetBits |-> 3, isBitField |-> TRUE, bitWidth |-> 7],
     [offsetBits |-> 10, isBitField |-> TRUE, bitWidth |-> 12],
     [offsetBits |-> 32, isBitField |-> FALSE, bitWidth |-> 0]}

\* declaration order is offset order, and a field that does not start a
\* byte follows the bitfield whose byte it shares
FieldSeqs ==
    {fs \in SeqsUpTo(FieldDecls, MaxFields) :
        /\ \A i, j \in DOMAIN fs : i < j => fs[i].offsetBits <= fs[j].offsetBits
        /\ \A i \in DOMAIN fs :
              fs[i].offsetBits % 8 # 0 =>
                  /\ i > 1
                  /\ fs[i - 1].isBitField
                  /\ fs[i - 1].offsetBits < fs[i].offsetBits}

\* the names of the declared fields, by position
FieldNames == <<"a", "b", "c", "d">>

\* what a cursor that is no defined record looks like to the queries
NoRecord(kind) ==
    [kind |-> kind, isCXXRecord |-> FALSE, isMicrosoft |-> FALSE,
     isPolymorphic |-> FALSE, bases |-> <<>>, vbases |-> <<>>,
     primaryBase |-> "", hasOwnVFPtr |-> FALSE, hasOwnVBPtr |-> FALSE,
     fields |-> <<>>, vfptrOffsets |-> <<>>]

\* a defined C struct or union
CRecords ==
    {[NoRecord("Record") EXCEPT !.isMicrosoft = ms, !.fields = fs] :
        ms \in BOOLEAN, fs \in FieldSeqs}

\* CXXRecordDecl::isDynamicClass: virtual functions or virtual bases
isDynamicClass(c) == c.isPolymorphic \/ c.vbases # <<>>

NonVirtualBaseTypes(c) == {b.type : b \in {x \in Range(c.bases) : ~x.isVirtual}}
DirectVirtualBaseTypes(c) == {b.type : b \in {x \in Range(c.bases) : x.isVirtual}}
VBaseTypes(c) == {b.type : b \in Range(c.vbases)}

\* the direct bases through which a virtual base can come in: a class with
\* virtual bases is dynamic, and the Itanium builder takes the first dynamic
\* non-virtual direct base as primary base, so under that ABI no non-virtual
\* base in front of the primary one (none at all without one) has any
CanHaveVBases(c, k) ==
    \/ c.isMicrosoft
    \/ c.bases[k].isVirtual
    \/ \E p \in 1..k : ~c.bases[p].isVirtual /\ c.bases[p].type = c.primaryBase

\* what C++ and clang guarantee about the bases of a defined record: no type
\* is a direct base twice, vbases() holds every virtual base once, a virtual
\* base is a direct one or comes in through another direct base, and the
\* primary base is a dynamic class (its virtual functions or virtual bases
\* are the record's too) that is a direct non-virtual base or, under the
\* Itanium ABI only, a virtual base
WellFormedBases(c) ==
    /\ DistinctTypes(c.bases)
    /\ DistinctTypes(c.vbases)
    /\ DirectVirtualBaseTypes(c) \subseteq VBaseTypes(c)
    /\ \A v \in VBaseTypes(c) :
            \/ v \in DirectVirtualBaseTypes(c)
            \/ \E k \in DOMAIN c.bases : c.bases[k].type # v /\ CanHaveVBases(c, k)
    /\ c.primaryBase # "" =>
            /\ c.isPolymorphic \/ \E v \in VBaseTypes(c) : v # c.primaryBase
            /\ c.primaryBase \in NonVirtualBaseTypes(c) \cup
                    (IF c.isMicrosoft THEN {} ELSE VBaseTypes(c))

\* what the record layout builders and the vtable context of clang guarantee:
\* the Itanium builder sets HasOwnVFPtr exactly for a dynamic class without
\* primary base and knows no vbptr and no vtordisp; the Microsoft builder
\* gives an own vfptr only to a polymorphic class without primary base, an
\* own vbptr only to a class with virtual bases, and MicrosoftVTableContext
\* keeps one VPtrInfo per offset, at least one for a polymorphic class
WellFormedLayout(c) ==
    /\ Distinct(c.vfptrOffsets)
    /\ IF c.isMicrosoft
       THEN /\ c.hasOwnVFPtr => c.isPolymorphic /\ c.primaryBase = ""
            /\ c.hasOwnVBPtr => c.vbases # <<>>
            /\ c.vfptrOffsets # <<>> <=> c.isPolymorphic
       ELSE /\ c.hasOwnVFPtr <=> isDynamicClass(c) /\ c.primaryBase = ""
            /\ ~c.hasOwnVBPtr
            /\ \A i \in DOMAIN c.vbases : ~c.vbases[i].hasVtorDisp
            /\ c.vfptrOffsets = <<>>

\* the defined C++ records with their bases, before layout and fields
CXXBases ==
    {c \in [kind : {"Record"}, isCXXRecord : {TRUE}, isMicrosoft : BOOLEAN,
            isPolymorphic : BOOLEAN,
            bases : SeqsUpTo(BaseSpecifiers, Cardinality(RecordTypes)),
            vbases : SeqsUpTo([type : RecordTypes, hasVtorDisp : {FALSE}],
                              Cardinality(RecordTypes)),
            primaryBase : RecordTypes \cup {""},
            hasOwnVFPtr : {FALSE}, hasOwnVBPtr : {FALSE},
            fields : {<<>>}, vfptrOffsets : {<<>>}] :
        WellFormedBases(c)}

\* the sequences that differ from vbases in the hasVtorDisp flags only
VtorDispChoices(vbases) ==
    {vb \in [DOMAIN vbases -> VBaseSpecifiers] :
        \A i \in DOMAIN vbases : vb[i].type = vbases[i].type}

\* the defined C++ records, without their fields
CXXShapes ==
    UNION {
        {d \in {[c EXCEPT !.hasOwnVFPtr = vf, !.hasOwnVBPtr = vb,
                          !.vbases = vd, !.vfptrOffsets = vo] :
                    vf \in BOOLEAN, vb \in BOOLEAN,
                    vd \in VtorDispChoices(c.vbases),
                    vo \in SeqsUpTo(VFPtrOffsets, Cardinality(VFPtrOffsets))} :
            WellFormedLayout(d)} :
        c \in CXXBases}

CXXRecords == {[c EXCEPT !.fields = fs] : c \in CXXShapes, fs \in FieldSeqs}

Cursors ==
    {NoRecord("NotDeclaration"), NoRecord("NotRecord"), NoRecord("NoDefinition")}
    \cup CRecords \cup CXXRecords

----------------------------------------------------------------------------
(* pathogen_GetRecordLayout, one action per statement group or loop turn *)

\* the bit width of char that ASTContext::toCharUnitsFromBits and toBits use
CharWidth == 8

toCharUnitsFromBits(bits) == bits \div CharWidth
toBits(chars) == chars * CharWidth

\* IsMsLayout(context); the vtable context is the Microsoft one exactly when
\* the target's C++ ABI is
IsMsLayout(c) == c.isMicrosoft

\* MicrosoftVTableContext::getVFTableLayout(cxxRecord, offset) of this AST:
\* the RTTI slot and the virtual functions reached through that vfptr
getVFTableLayout(offset) ==
    <<[Kind |-> CK_RTTI, Value |-> 1],
      [Kind |-> CK_FunctionPointer, Value |-> 10 + offset],
      [Kind |-> CK_DeletingDtorPointer, Value |-> 2]>>

\* ItaniumVTableContext::getVTableLayout(cxxRecord) of this AST
getVTableLayout ==
    <<[Kind |-> CK_OffsetToTop, Value |-> 0],
      [Kind |-> CK_RTTI, Value |-> 1],
      [Kind |-> CK_FunctionPointer, Value |-> 10]>>

\* the fresh object: the layout and both lists are untouched
NoAllocation == UNCHANGED <<layouts, fields, vtables, arrays, strings, live>>

\* ret->FirstField and the field heap after a call r of AddField, the
\* returned field holding what the caller then set on it
Inserted(r, field) ==
    /\ fields' = [r.fields EXCEPT ![r.field] = field]
    /\ layouts' = [layouts EXCEPT ![ret].FirstField = r.FirstField]

\* clang_isDeclaration(cursor.kind)
clang_isDeclaration(c) == c.kind # "NotDeclaration"

\* dyn_cast_or_null<RecordDecl>(getCursorDecl(cursor)) != nullptr
IsRecordDecl(c) == c.kind \in {"NoDefinition", "Record"}

\* record->getDefinition() != nullptr
HasDefinition(c) == c.kind = "Record"

\* the early returns without the check for a definition
ReturnsNullUndefinedPassed(c) == ~clang_isDeclaration(c) \/ ~IsRecordDecl(c)

\* lines 252-271: the three early returns
ReturnsNull(c) == ~clang_isDeclaration(c) \/ ~IsRecordDecl(c) \/ ~HasDefinition(c)

\* lines 251-299: the early returns, then new PathogenRecordLayout()
Validate ==
    /\ pc = "start"
    /\ IF ReturnsNull(cursor)
       THEN /\ result' = <<NULL>>
            /\ pc' = "done"
            /\ NoAllocation
            /\ UNCHANGED <<ret, idx>>
       ELSE /\ layouts' = Append(layouts, [FirstField |-> NULL, FirstVTable |-> NULL,
                                           IsCppRecord |-> cursor.isCXXRecord])
            /\ ret' = Len(layouts) + 1
            /\ live' = live \cup {<<"layout", Len(layouts) + 1>>}
            /\ pc' = IF cursor.isCXXRecord THEN "vptr" ELSE "fields"
            /\ idx' = 1
            /\ UNCHANGED <<result, fields, vtables, arrays, strings>>
    /\ UNCHANGED <<cursor, freed>>

\* VTablePtrNames with `if` for `else if`: both branches can insert
VTablePtrNamesBoth(c) ==
    (IF isDynamicClass(c) /\ c.primaryBase = "" /\ ~IsMsLayout(c)
     THEN <<"vtable_pointer">> ELSE <<>>)
    \o (IF c.hasOwnVFPtr THEN <<"vftable_pointer">> ELSE <<>>)

\* lines 309-318: the names of the vtable pointers to insert at offset 0
VTablePtrNames(c) ==
    IF isDynamicClass(c) /\ c.primaryBase = "" /\ ~IsMsLayout(c)
    THEN <<"vtable_pointer">>
    ELSE IF c.hasOwnVFPtr THEN <<"vftable_pointer">> ELSE <<>>

RECURSIVE AddVTablePtrs(_, _, _)
\* AddField(VTablePtr, 0, createRef(name), void**) for each of names
AddVTablePtrs(fs, first, names) ==
    IF names = <<>> THEN [fields |-> fs, FirstField |-> first, field |-> NULL]
    ELSE LET r == AddField(fs, first, VTablePtr, 0, createRef(Head(names)),
                           MakeCXType("void**"))
         IN  AddVTablePtrs(r.fields, r.FirstField, Tail(names))

\* lines 304-318: add vtable pointer
AddVTablePtr ==
    /\ pc = "vptr"
    /\ LET r == AddVTablePtrs(fields, layouts[ret].FirstField, VTablePtrNames(cursor))
       IN  /\ fields' = r.fields
           /\ layouts' = [layouts EXCEPT ![ret].FirstField = r.FirstField]
           /\ live' = live \cup {<<"field", f>> : f \in (Len(fields) + 1)..Len(r.fields)}
    /\ pc' = "bases"
    /\ idx' = 1
    /\ UNCHANGED <<cursor, ret, result, vtables, arrays, strings, freed>>

\* line 332: bool isPrimary = baseRecord == primaryBase
IsPrimaryNonVirtualBase(c, base) == base.type = c.primaryBase

\* lines 321-337: one turn of the loop over cxxRecord->bases()
AddNonVirtualBase ==
    /\ pc = "bases"
    /\ idx <= Len(cursor.bases)
    /\ LET base == cursor.bases[idx]
           isPrimary == IsPrimaryNonVirtualBase(cursor, base)
           r == AddField(fields, layouts[ret].FirstField, NonVirtualBase,
                         getBaseClassOffset(base.type),
                         createRef(IF isPrimary THEN "primary_base" ELSE "base"),
                         MakeCXType(base.type))
           field == [r.fields[r.field] EXCEPT !.IsPrimaryBase = isPrimary]
       IN  IF base.isVirtual
           THEN UNCHANGED <<fields, layouts, live>>
           ELSE /\ Inserted(r, field)
                /\ live' = live \cup {<<"field", r.field>>}
    /\ idx' = idx + 1
    /\ UNCHANGED <<cursor, pc, ret, result, vtables, arrays, strings, freed>>

\* lines 339-343: the loop over the bases is over; Vbptr
AddVBPtr ==
    /\ pc = "bases"
    /\ idx > Len(cursor.bases)
    /\ LET r == AddField(fields, layouts[ret].FirstField, VirtualBaseTablePtr,
                         getVBPtrOffset, createRef("vbtable_pointer"),
                         MakeCXType("void*"))
       IN  IF cursor.hasOwnVBPtr
           THEN /\ Inserted(r, r.fields[r.field])
                /\ live' = live \cup {<<"field", r.field>>}
           ELSE UNCHANGED <<fields, layouts, live>>
    /\ pc' = "fields"
    /\ idx' = 1
    /\ UNCHANGED <<cursor, ret, result, vtables, arrays, strings, freed>>

\* MarkBitField that forgets to take the bits of the whole bytes off
MarkBitFieldFromStart(field, decl) ==
    IF decl.isBitField
    THEN [field EXCEPT !.IsBitField = TRUE,
                       !.BitFieldStart = decl.offsetBits,
                       !.BitFieldWidth = decl.bitWidth]
    ELSE field

\* lines 360-365: the members set on the slot of a bitfield; the difference
\* is below CharWidth, so the conversion to unsigned int changes nothing
MarkBitField(field, decl) ==
    LET offsetBits == decl.offsetBits
        offsetChars == toCharUnitsFromBits(offsetBits)
    IN  IF decl.isBitField
        THEN [field EXCEPT !.IsBitField = TRUE,
                           !.BitFieldStart = offsetBits - toBits(offsetChars),
                           !.BitFieldWidth = decl.bitWidth]
        ELSE field

\* lines 348-366, with AddField(kind, offset, translationUnit, field) of
\* lines 198-204: one turn of the loop over the declared fields
AddNormalField ==
    /\ pc = "fields"
    /\ idx <= Len(cursor.fields)
    /\ LET decl == cursor.fields[idx]
           offset == toCharUnitsFromBits(decl.offsetBits)
           buffer == Len(strings) + 1
           r == AddField(fields, layouts[ret].FirstField, Normal, offset,
                         createDup(FieldNames[idx], buffer), MakeCXType("int"))
           ret_ == [r.fields[r.field] EXCEPT !.FieldDeclaration = MakeCXCursor(idx)]
           pathogenField == MarkBitField(ret_, decl)
       IN  /\ strings' = Append(strings, FieldNames[idx])
           /\ Inserted(r, pathogenField)
           /\ live' = live \cup {<<"string", buffer>>, <<"field", r.field>>}
    /\ idx' = idx + 1
    /\ UNCHANGED <<cursor, pc, ret, result, vtables, arrays, freed>>

\* lines 348, 369, 395: the loop over the fields is over
FieldsEnd ==
    /\ pc = "fields"
    /\ idx > Len(cursor.fields)
    /\ pc' = IF cursor.isCXXRecord THEN "vbases" ELSE "return"
    /\ idx' = 1
    /\ NoAllocation
    /\ UNCHANGED <<cursor, ret, result, freed>>

\* line 388: bool isPrimary = vbase == primaryBase
IsPrimaryVirtualBase(c, vbase) == vbase.type = c.primaryBase

\* lines 374-391: one turn of the loop over cxxRecord->vbases()
AddVirtualBase ==
    /\ pc = "vbases"
    /\ idx <= Len(cursor.vbases)
    /\ LET vbase == cursor.vbases[idx]
           offset == getVBaseClassOffset(vbase.type)
           baseCxType == MakeCXType(vbase.type)
           d == AddField(fields, layouts[ret].FirstField, VTorDisp, offset - 4,
                         createRef("vtordisp"), baseCxType)
           withDisp == IF vbase.hasVtorDisp THEN d
                       ELSE [fields |-> fields, FirstField |-> layouts[ret].FirstField,
                             field |-> NULL]
           isPrimary == IsPrimaryVirtualBase(cursor, vbase)
           r == AddField(withDisp.fields, withDisp.FirstField, VirtualBase, offset,
                         createRef(IF isPrimary THEN "primary_virtual_base"
                                   ELSE "virtual_base"),
                         baseCxType)
           field == [r.fields[r.field] EXCEPT !.IsPrimaryBase = isPrimary]
       IN  /\ Inserted(r, field)
           /\ live' = live \cup {<<"field", f>> : f \in (Len(fields) + 1)..r.field}
    /\ idx' = idx + 1
    /\ UNCHANGED <<cursor, pc, ret, result, vtables, arrays, strings, freed>>

\* lines 374, 395: the loop over the virtual bases is over
VBasesEnd ==
    /\ pc = "vbases"
    /\ idx > Len(cursor.vbases)
    /\ pc' = "vtables"
    /\ idx' = 1
    /\ NoAllocation
    /\ UNCHANGED <<cursor, ret, result, freed>>

\* ret->FirstVTable and the heaps after a call r of AddVTableLayout
VTableAdded(r) ==
    /\ vtables' = r.vtables
    /\ arrays' = r.arrays
    /\ layouts' = [layouts EXCEPT ![ret].FirstVTable = r.FirstVTable]
    /\ live' = live \cup {<<"vtable", r.vTable>>, <<"array", r.vtables[r.vTable].Entries>>}

\* lines 402-406: one turn of the loop over getVFPtrOffsets(cxxRecord)
AddMicrosoftVTable ==
    /\ pc = "vtables"
    /\ cursor.isMicrosoft
    /\ idx <= Len(cursor.vfptrOffsets)
    /\ VTableAdded(AddVTableLayout(vtables, arrays, layouts[ret].FirstVTable,
                                   getVFTableLayout(cursor.vfptrOffsets[idx])))
    /\ idx' = idx + 1
    /\ UNCHANGED <<cursor, pc, ret, result, fields, strings, freed>>

\* line 402: the loop over the vfptr offsets is over
MicrosoftVTablesEnd ==
    /\ pc = "vtables"
    /\ cursor.isMicrosoft
    /\ idx > Len(cursor.vfptrOffsets)
    /\ pc' = "return"
    /\ NoAllocation
    /\ UNCHANGED <<cursor, idx, ret, result, freed>>

\* lines 408-413: the single vtable of the Itanium ABI
AddItaniumVTable ==
    /\ pc = "vtables"
    /\ ~cursor.isMicrosoft
    /\ VTableAdded(AddVTableLayout(vtables, arrays, layouts[ret].FirstVTable,
                                   getVTableLayout))
    /\ pc' = "return"
    /\ UNCHANGED <<cursor, idx, ret, result, fields, strings, freed>>

\* line 416: return ret
Return ==
    /\ pc = "return"
    /\ result' = <<ret>>
    /\ pc' = "done"
    /\ NoAllocation
    /\ UNCHANGED <<cursor, idx, ret, freed>>

\* lines 419-422: pathogen_DeleteRecordLayout(layout) on the returned layout
pathogen_DeleteRecordLayout ==
    /\ pc = "done"
    /\ result # <<NULL>>
    /\ LET releases == DeleteLayout(layouts, fields, vtables, result[1])
       IN  /\ freed' = freed \o releases
           /\ live' = live \ Range(releases)
    /\ pc' = "deleted"
    /\ UNCHANGED <<cursor, idx, ret, result, layouts, fields, vtables, arrays, strings>>

Init ==
    /\ cursor \in Cursors
    /\ pc = "start"
    /\ idx = 1
    /\ ret = NULL
    /\ result = <<>>
    /\ layouts = <<>>
    /\ fields = <<>>
    /\ vtables = <<>>
    /\ arrays = <<>>
    /\ strings = <<>>
    /\ live = {}
    /\ freed = <<>>

Next ==
    \/ Validate
    \/ AddVTablePtr
    \/ AddNonVirtualBase
    \/ AddVBPtr
    \/ AddNormalField
    \/ FieldsEnd
    \/ AddVirtualBase
    \/ VBasesEnd
    \/ AddMicrosoftVTable
    \/ MicrosoftVTablesEnd
    \/ AddItaniumVTable
    \/ Return
    \/ pathogen_DeleteRecordLayout

Spec == Init /\ [][Next]_vars

----------------------------------------------------------------------------
(* AddField on its own: any kinds and offsets, in any order *)

MaxInserts == 3

\* the offsets tried, the negative one as of a VTorDisp before offset 4
InsertOffsets == {-4, 0, 4}

\* a layout as new PathogenRecordLayout() leaves it
EmptyLayout == [FirstField |-> NULL, FirstVTable |-> NULL, IsCppRecord |-> FALSE]

InitAddField ==
    /\ cursor = NoRecord("None")
    /\ pc = "AddField"
    /\ idx = 1
    /\ ret = 1
    /\ result = <<>>
    /\ layouts = <<EmptyLayout>>
    /\ fields = <<>>
    /\ vtables = <<>>
    /\ arrays = <<>>
    /\ strings = <<>>
    /\ live = {<<"layout", 1>>}
    /\ freed = <<>>

\* ret->AddField(kind, offset, name, type)
CallAddField ==
    /\ pc = "AddField"
    /\ Len(fields) < MaxInserts
    /\ \E kind \in FieldKinds, offset \in InsertOffsets :
          LET r == AddField(fields, layouts[ret].FirstField, kind, offset,
                            createRef("slot"), MakeCXType("void*"))
          IN  /\ Inserted(r, r.fields[r.field])
              /\ live' = live \cup {<<"field", r.field>>}
    /\ UNCHANGED <<cursor, pc, idx, ret, result, vtables, arrays, strings, freed>>

NextAddField == CallAddField

SpecAddField == InitAddField /\ [][NextAddField]_vars

----------------------------------------------------------------------------
(* PathogenVTable on its own: any component sequence *)

MaxComponents == 2

\* the VTableComponents a vtable builder can report: an offset for the
\* three offset kinds, a declaration for the pointer kinds
Components ==
    {[Kind |-> k, Value |-> v] :
        k \in {CK_VCallOffset, CK_VBaseOffset, CK_OffsetToTop}, v \in {-8, 0}}
    \cup {[Kind |-> k, Value |-> v] :
        k \in ComponentKinds \ {CK_VCallOffset, CK_VBaseOffset, CK_OffsetToTop},
        v \in {1, 2}}

InitVTable ==
    /\ cursor \in {[kind |-> "VTableLayout", vtable_components |-> cs] :
                        cs \in SeqsUpTo(Components, MaxComponents)}
    /\ pc = "AddVTableLayout"
    /\ idx = 1
    /\ ret = 1
    /\ result = <<>>
    /\ layouts = <<EmptyLayout>>
    /\ fields = <<>>
    /\ vtables = <<>>
    /\ arrays = <<>>
    /\ strings = <<>>
    /\ live = {<<"layout", 1>>}
    /\ freed = <<>>

\* ret->AddVTableLayout(translationUnit, layout)
CallAddVTableLayout ==
    /\ pc = "AddVTableLayout"
    /\ VTableAdded(AddVTableLayout(vtables, arrays, layouts[ret].FirstVTable,
                                   cursor.vtable_components))
    /\ pc' = "added"
    /\ UNCHANGED <<cursor, idx, ret, result, fields, strings, freed>>

NextAddVTableLayout == CallAddVTableLayout

SpecVTable == InitVTable /\ [][NextAddVTableLayout]_vars

----------------------------------------------------------------------------
(* Properties *)

\* the fields of the list, in list order
Slots == [i \in DOMAIN FieldList |-> fields[FieldList[i]]]

\* the fields of the list that have the given kind
SlotsOfKind(kind) == {f \in Range(FieldList) : fields[f].Kind = kind}

\* pathogen_GetRecordLayout has returned a layout that is not yet deleted
Returned == pc = "done" /\ result # <<NULL>>

\* C1: after every AddField, whatever the kinds, the offsets (negative ones
\* too) and the order of the calls, the list walked from FirstField through
\* NextField is non-decreasing in Offset.
C1_FieldListSorted ==
    \A i \in DOMAIN Slots : \A j \in DOMAIN Slots : i < j => Slots[i].Offset <= Slots[j].Offset

\* C1 witness: three insertions, the last one of a negative offset that had
\* to go to the head of a list holding two offsets
C1_Witness ==
    /\ pc = "AddField"
    /\ Len(FieldList) = 3
    /\ FieldList[1] = 3
    /\ Slots[1].Offset < 0
    /\ Slots[2].Offset < Slots[3].Offset

\* C9: AddField is a stable insertion: the new field goes after every field
\* whose Offset is less than or equal to its own and before every field with
\* a greater Offset, and the fields already in the list keep their offsets
\* and their relative order.
C9_StableInsertion ==
    [][pc = "AddField" =>
        LET old == FieldList
            new == FieldList'
            field == Len(fields')
        IN  /\ \A f \in DOMAIN fields : fields'[f].Offset = fields[f].Offset
            /\ \E p \in DOMAIN new :
                  /\ new[p] = field
                  /\ old = [i \in 1..(Len(new) - 1) |-> IF i < p THEN new[i] ELSE new[i + 1]]
                  /\ \A i \in DOMAIN new :
                        /\ i < p => fields'[new[i]].Offset <= fields'[field].Offset
                        /\ i > p => fields'[new[i]].Offset > fields'[field].Offset]_vars

\* C9 witness: two fields of one offset in insertion order, with a field
\* inserted before them that lies behind them
C9_Witness ==
    /\ pc = "AddField"
    /\ FieldList = <<2, 3, 1>>
    /\ Slots[1].Offset = Slots[2].Offset
    /\ Slots[2].Offset < Slots[3].Offset

\* C2: a returned layout of a record with no virtual functions and no
\* virtual bases has no VTablePtr, VirtualBaseTablePtr, VTorDisp or
\* VirtualBase field and an empty VTable list.
C2_NoVirtualNothingVirtual ==
    (Returned /\ ~isDynamicClass(cursor)) =>
        /\ \A k \in {VTablePtr, VirtualBaseTablePtr, VTorDisp, VirtualBase} :
                SlotsOfKind(k) = {}
        /\ layouts[result[1]].FirstVTable = NULL

\* C3: under the Itanium ABI the returned layout of a dynamic record without
\* primary base has exactly one VTablePtr field, at offset 0, and exactly one
\* VTable.
C3_ItaniumOneVTablePtr ==
    (Returned /\ cursor.isCXXRecord /\ ~cursor.isMicrosoft
        /\ isDynamicClass(cursor) /\ cursor.primaryBase = "") =>
        /\ Cardinality(SlotsOfKind(VTablePtr)) = 1
        /\ \A f \in SlotsOfKind(VTablePtr) : fields[f].Offset = 0
        /\ Len(VTableList) = 1

\* C3 witness: such a record, which also owns its vfptr, returned with fields
\* and bases around the pointer
C3_Witness ==
    /\ Returned /\ cursor.isCXXRecord /\ ~cursor.isMicrosoft
    /\ isDynamicClass(cursor) /\ cursor.primaryBase = ""
    /\ cursor.hasOwnVFPtr
    /\ Len(cursor.bases) = 2 /\ Len(cursor.fields) = 2
    /\ Cardinality(SlotsOfKind(VTablePtr)) = 1

\* C4: under the Microsoft ABI the VTable chain of the returned layout holds
\* one VTable per vfptr offset the vtable context reported, in the order of
\* the enumeration, so there are as many VTables as distinct offsets.
C4_MicrosoftVTablePerOffset ==
    (Returned /\ cursor.isMicrosoft) =>
        /\ Len(VTableList) = Len(cursor.vfptrOffsets)
        /\ Len(VTableList) = Cardinality(Range(cursor.vfptrOffsets))
        /\ \A i \in DOMAIN VTableList :
              LET vTable == vtables[VTableList[i]]
                  layout == getVFTableLayout(cursor.vfptrOffsets[i])
              IN  /\ vTable.EntryCount = Len(layout)
                  /\ arrays[vTable.Entries] = VTableEntries(layout)

\* C4 witness: two vfptr offsets, enumerated against their numeric order
C4_Witness ==
    /\ Returned /\ cursor.isMicrosoft
    /\ cursor.vfptrOffsets = <<8, 0>>
    /\ Len(VTableList) = 2

\* the fields of the given kind that are flagged IsPrimaryBase
PrimarySlots(kind) == {f \in SlotsOfKind(kind) : fields[f].IsPrimaryBase}

\* C5: in a returned layout IsPrimaryBase is true on at most one
\* NonVirtualBase field and on at most one VirtualBase field, and never on a
\* NonVirtualBase field and a VirtualBase field of the same base type.
C5_AtMostOnePrimaryBase ==
    Returned =>
        /\ Cardinality(PrimarySlots(NonVirtualBase)) <= 1
        /\ Cardinality(PrimarySlots(VirtualBase)) <= 1
        /\ \A f \in PrimarySlots(NonVirtualBase) : \A g \in PrimarySlots(VirtualBase) :
                fields[f].Type # fields[g].Type

\* everything that was ever allocated
Allocated ==
    {<<"layout", a>> : a \in DOMAIN layouts} \cup {<<"field", a>> : a \in DOMAIN fields}
    \cup {<<"vtable", a>> : a \in DOMAIN vtables} \cup {<<"array", a>> : a \in DOMAIN arrays}
    \cup {<<"string", a>> : a \in DOMAIN strings}

\* the slots that report the declared field number i
SlotsOfField(i) ==
    {f \in SlotsOfKind(Normal) : fields[f].FieldDeclaration = MakeCXCursor(i)}

\* C6: pathogen_GetRecordLayout returns null, having allocated nothing, when
\* the cursor is no declaration, no record or a record without definition;
\* in every other case it returns a layout, and only a finished one: every
\* base, declared field and virtual base has its slot by then.
C6_NullOrComplete ==
    /\ result # <<>> => pc \in {"done", "deleted"}
    /\ pc = "done" =>
          /\ result # <<>>
          /\ result = <<NULL>> <=> cursor.kind \in {"NotDeclaration", "NotRecord", "NoDefinition"}
          /\ result = <<NULL>> => Allocated = {} /\ live = {}
          /\ result # <<NULL>> =>
                /\ result[1] \in DOMAIN layouts
                /\ <<"layout", result[1]>> \in live
                /\ \A i \in DOMAIN cursor.fields : Cardinality(SlotsOfField(i)) = 1
                /\ Cardinality(SlotsOfKind(Normal)) = Len(cursor.fields)
                /\ Cardinality(SlotsOfKind(NonVirtualBase)) =
                        Cardinality(NonVirtualBaseTypes(cursor))
                /\ Cardinality(SlotsOfKind(VirtualBase)) = Len(cursor.vbases)

\* C6 witness: a forward declaration has been answered with null
C6_Witness == pc = "done" /\ result = <<NULL>> /\ cursor.kind = "NoDefinition"

\* how often the allocation a was released
Releases(a) == Cardinality({i \in DOMAIN freed : freed[i] = a})

\* C7: one pathogen_DeleteRecordLayout of a returned layout releases each
\* Field, each Field's name buffer, each VTable and each Entries array (and
\* the layout) exactly once: nothing stays allocated, nothing is released
\* twice, nothing is released that was not allocated.
C7_ReleasedExactlyOnce ==
    pc = "deleted" =>
        /\ live = {}
        /\ \A a \in Allocated : Releases(a) = 1
        /\ Range(freed) \subseteq Allocated

\* C7 witness: a deleted layout that held two named fields, injected slots
\* and two vtables
C7_Witness ==
    /\ pc = "deleted"
    /\ Len(strings) = 2
    /\ Len(fields) > 4
    /\ Len(vtables) = 2

\* C8 as claimed: the slot of a bitfield has IsBitField and its bits end
\* within the byte at its Offset: BitFieldStart + BitFieldWidth <= CharWidth.
C8_BitFieldWithinByte ==
    \A i \in DOMAIN cursor.fields : \A f \in SlotsOfField(i) :
        cursor.fields[i].isBitField =>
            /\ fields[f].IsBitField
            /\ fields[f].BitFieldStart + fields[f].BitFieldWidth <= CharWidth

\* C8 amended: the slot of a bitfield has IsBitField, BitFieldStart is the
\* position of its first bit within the byte at Offset (below CharWidth, and
\* Offset bytes plus BitFieldStart bits is the reported bit offset) and
\* BitFieldWidth is the declared width, which may reach past that byte; the
\* slot of any other field has IsBitField false.
C8_BitFieldPlacement ==
    \A i \in DOMAIN cursor.fields : \A f \in SlotsOfField(i) :
        IF cursor.fields[i].isBitField
        THEN /\ fields[f].IsBitField
             /\ fields[f].BitFieldStart \in 0..(CharWidth - 1)
             /\ fields[f].Offset * CharWidth + fields[f].BitFieldStart
                    = cursor.fields[i].offsetBits
             /\ fields[f].BitFieldWidth = cursor.fields[i].bitWidth
        ELSE ~fields[f].IsBitField

\* C8 witness: two bitfields sharing the byte at offset 0, the second one
\* starting at bit 3 and ending in the next byte
C8_Witness ==
    /\ Returned
    /\ Len(cursor.fields) = 2
    /\ \E f \in SlotsOfField(1), g \in SlotsOfField(2) :
          /\ fields[f].IsBitField /\ fields[g].IsBitField
          /\ fields[f].Offset = fields[g].Offset
          /\ fields[g].BitFieldStart = 3
          /\ fields[g].BitFieldStart + fields[g].BitFieldWidth > CharWidth

\* C10: a VTable is the element by element translation of the components the
\* builder reported: EntryCount is their number, entry i has the kind of
\* component i, Offset is set for the three offset kinds only, RttiType for
\* RTTI only, MethodDeclaration for the four function pointer kinds only, and
\* the other payload fields are zero.
C10_EntriesTranslateComponents ==
    pc = "added" =>
        /\ Len(VTableList) = 1
        /\ LET vTable == vtables[VTableList[1]]
               Entries == arrays[vTable.Entries]
               components == cursor.vtable_components
           IN  /\ vTable.EntryCount = Len(components)
               /\ DOMAIN Entries = DOMAIN components
               /\ \A i \in DOMAIN components :
                     LET e == Entries[i]
                         c == components[i]
                     IN  /\ e.Kind = c.Kind
                         /\ e.Offset =
                              IF c.Kind \in {VCallOffset, VBaseOffset, OffsetToTop}
                              THEN c.Value ELSE 0
                         /\ e.RttiType =
                              IF c.Kind = RTTI
                              THEN [kind |-> "CXCursor_Decl", data |-> c.Value]
                              ELSE [kind |-> "CXCursor_Zero", data |-> 0]
                         /\ e.MethodDeclaration =
                              IF c.Kind \in {FunctionPointer, CompleteDestructorPointer,
                                              DeletingDestructorPointer, UnusedFunctionPointer}
                              THEN [kind |-> "CXCursor_Decl", data |-> c.Value]
                              ELSE [kind |-> "CXCursor_Zero", data |-> 0]

\* C10 witness: a table translated from an offset component with a non-zero
\* offset followed by the RTTI component
C10_Witness ==
    /\ pc = "added"
    /\ Len(VTableList) = 1
    /\ LET Entries == arrays[vtables[VTableList[1]].Entries]
       IN  /\ Len(Entries) = 2
           /\ Entries[1].Kind = OffsetToTop /\ Entries[1].Offset # 0
           /\ Entries[2].Kind = RTTI /\ Entries[2].RttiType # NullCursor

====
